---- MODULE Spec2Model ----
(***************************************************************************)
(* skipbot.py: the nightly skip-the-line ledger.                           *)
(*                                                                         *)
(* Two JSON files hold the durable state: SALES_FILE (night -> venue ->    *)
(* list of {session, user}) and PHRASES_FILE (night -> shuffled phrases).  *)
(* Every operation reads a whole file with load_json, changes the copy in  *)
(* memory and writes the whole file back with save_json.                   *)
(*                                                                         *)
(* Two kinds of callers run side by side:                                  *)
(*   - the Flask webhook server, started in its own Thread (keep_alive);   *)
(*     each request is served by a thread of that server, so several       *)
(*     stripe_webhook calls may be between their load and their save;      *)
(*   - the discord command handlers, coroutines of one asyncio event loop: *)
(*     a handler keeps the loop from its start to its first await, and in  *)
(*     every handler the first await comes after the last file access.     *)
(* load_json and save_json are each taken as one step.                     *)
(***************************************************************************)
EXTENDS Integers, Sequences, FiniteSets, TLC

\* ------------------------------------------------------------- bounds
\* Clock readings the model walks through (see Instant).
MaxTick == 3
\* Checkout sessions Stripe creates before it starts refusing.
MaxSessions == 2
\* Nightly capacity per venue; the program prints and tests 25.
Capacity == 1
\* move_sale commands the owner issues.
MaxMoves == 1

\* ---------------------------------------------------------- constants
Venues == {"ATL", "FL"}
\* interaction.user.id of the buyer who starts checkout number n
UserOf(n) == 100 + n
WebThreads == {"w1", "w2"}
BotTasks == {"t1", "t2"}

\* The vocabulary, cut to its first two phrases.
DAILY_PHRASES == <<"Pineapples", "Kinkster">>

\* ------------------------------------------------------------ calendar
\* A date is its ordinal (days since BaseDate); iso_date renders it as
\* year, month, day.
BaseDate == <<2024, 2, 28>>

IsLeap(y) == (y % 4 = 0 /\ y % 100 # 0) \/ y % 400 = 0

DaysInMonth(y, m) ==
    IF m = 2 THEN (IF IsLeap(y) THEN 29 ELSE 28)
    ELSE IF m \in {4, 6, 9, 11} THEN 30 ELSE 31

NextDay(ymd) ==
    IF ymd[3] < DaysInMonth(ymd[1], ymd[2]) THEN <<ymd[1], ymd[2], ymd[3] + 1>>
    ELSE IF ymd[2] < 12 THEN <<ymd[1], ymd[2] + 1, 1>>
    ELSE <<ymd[1] + 1, 1, 1>>

RECURSIVE FromOrdinal(_)
FromOrdinal(n) == IF n = 0 THEN BaseDate ELSE NextDay(FromOrdinal(n - 1))

iso_date(dt) == FromOrdinal(dt)

\* datetime.datetime.now() at clock reading t: 00:59, 01:00 and 23:59 of
\* day 1, then the same three readings of day 2, and so on.
Instant(t) ==
    [date   |-> 1 + (t \div 3),
     hour   |-> IF t % 3 = 2 THEN 23 ELSE t % 3,
     minute |-> IF t % 3 = 1 THEN 0 ELSE 59]

get_sale_date_le(now) ==
    IF now.hour <= 1 THEN now.date - 1 ELSE now.date

get_sale_date(now) ==
    IF now.hour < 1 THEN now.date - 1 ELSE now.date

\* ------------------------------------------------------------- helpers
EmptyDay == [ATL |-> <<>>, FL |-> <<>>]

\* dict.setdefault(k, v), as the dict it leaves behind
\* a new key starts a new dict: `d = {k: v}` in place of d.setdefault(k, v)
setdefault_fresh(d, k, v) == IF k \in DOMAIN d THEN d ELSE (k :> v)

setdefault(d, k, v) == IF k \in DOMAIN d THEN d ELSE (k :> v) @@ d

\* dict.get(k, v)
get(d, k, v) == IF k \in DOMAIN d THEN d[k] ELSE v

\* list.pop(i - 1), as the list it leaves behind
\* list.pop() without its argument takes the last element
pop_last(s, i) == SubSeq(s, 1, Len(s) - 1)

pop(s, i) == SubSeq(s, 1, i - 1) \o SubSeq(s, i + 1, Len(s))

\* [s["session"] for s in lst]
SessionsOf(lst) == {lst[i].session : i \in 1..Len(lst)}

Bijections(s) ==
    {p \in [1..Len(s) -> 1..Len(s)] : \A i, j \in 1..Len(s) : p[i] = p[j] => i = j}

\* the outcomes of random.shuffle on a copy of s
Shuffles(s) == {[i \in 1..Len(s) |-> s[p[i]]] : p \in Bijections(s)}

EmptyDict == [k \in {} |-> 0]

\* ---------------------------------------------------------------- state
VARIABLES
    clock,      \* index of the current reading of datetime.now()
    sales,      \* SALES_FILE: night key -> [ATL, FL] -> list of records
    phrases,    \* PHRASES_FILE: night key -> list of phrases
    sessions,   \* Stripe checkout sessions; session i carries metadata sessions[i]
    enabled,    \* venue -> some posted message shows its buy button enabled
    web,        \* webhook server thread -> its position in stripe_webhook
    bot,        \* command task -> its position in its handler
    loop,       \* the task the event loop is running, or "none"
    moves       \* move_sale commands issued so far

vars == <<clock, sales, phrases, sessions, enabled, web, bot, loop, moves>>

\* notice: what became of the message to the buyer; status: the HTTP answer
IdleWeb ==
    [pc |-> "idle", sess |-> 0, all_sales |-> EmptyDict, count |-> 0,
     saved |-> FALSE, notice |-> "none", status |-> 0]

NoEntry == [session |-> 0, user |-> 0]

IdleTask ==
    [pc |-> "idle", op |-> "none", location |-> "none", to_loc |-> "none",
     index |-> 0, key |-> <<>>, all_sales |-> EmptyDict, pool |-> EmptyDict,
     entry |-> NoEntry, lst |-> <<>>, result |-> "none", seen |-> {}]

Init ==
    /\ clock = 0
    /\ sales = EmptyDict
    /\ phrases = EmptyDict
    /\ sessions = <<>>
    /\ enabled = [v \in Venues |-> FALSE]
    /\ web = [w \in WebThreads |-> IdleWeb]
    /\ bot = [t \in BotTasks |-> IdleTask]
    /\ loop = "none"
    /\ moves = 0

now == Instant(clock)

\* time passes
Tick ==
    /\ clock < MaxTick
    /\ clock' = clock + 1
    /\ UNCHANGED <<sales, phrases, sessions, enabled, web, bot, loop, moves>>

\* ------------------------------------------------------ stripe_webhook
\* record_sale with day[location].insert(0, ...) in place of append
record_sale_prepend(all_sales, session_id, discord_id, location, sale_date_iso) ==
    LET d0  == setdefault(all_sales, sale_date_iso, EmptyDay)
        day == d0[sale_date_iso]
        d1  == [d0 EXCEPT ![sale_date_iso][location] =
                   <<[session |-> session_id, user |-> discord_id]>> \o @]
    IN  IF location \notin DOMAIN day
        THEN <<d0, FALSE, 0, TRUE>>
        ELSE IF session_id \notin SessionsOf(day[location])
        THEN <<d1, TRUE, Len(d1[sale_date_iso][location]), FALSE>>
        ELSE <<d0, FALSE, Len(day[location]), FALSE>>

\* record_sale without `if session_id not in [...]`
record_sale_nocheck(all_sales, session_id, discord_id, location, sale_date_iso) ==
    LET d0 == setdefault(all_sales, sale_date_iso, EmptyDay)
        d1 == [d0 EXCEPT ![sale_date_iso][location] =
                  Append(@, [session |-> session_id, user |-> discord_id])]
    IN  IF location \notin DOMAIN d0[sale_date_iso]
        THEN <<d0, FALSE, 0, TRUE>>
        ELSE <<d1, TRUE, Len(d1[sale_date_iso][location]), FALSE>>

\* record_sale with day.setdefault(location, []) in place of day[location]
record_sale_any_venue(all_sales, session_id, discord_id, location, sale_date_iso) ==
    LET d0  == setdefault(all_sales, sale_date_iso, EmptyDay)
        day == d0[sale_date_iso]
        lst == get(day, location, <<>>)
        new == Append(lst, [session |-> session_id, user |-> discord_id])
        d1  == [d0 EXCEPT ![sale_date_iso] = (location :> new) @@ day]
    IN  IF session_id \notin SessionsOf(lst)
        THEN <<d1, TRUE, Len(new), FALSE>>
        ELSE <<d0, FALSE, Len(lst), FALSE>>

\* record_sale after its load: the day, the membership test, the append.
\* The result is <<the dict in memory, whether it is saved, the return value,
\* whether day[location] raised KeyError>>.
record_sale(all_sales, session_id, discord_id, location, sale_date_iso) ==
    LET d0  == setdefault(all_sales, sale_date_iso, EmptyDay)
        day == d0[sale_date_iso]
        d1  == [d0 EXCEPT ![sale_date_iso][location] =
                   Append(@, [session |-> session_id, user |-> discord_id])]
    IN  IF location \notin DOMAIN day
        THEN <<d0, FALSE, 0, TRUE>>
        ELSE IF session_id \notin SessionsOf(day[location])
        THEN <<d1, TRUE, Len(d1[sale_date_iso][location]), FALSE>>
        ELSE <<d0, FALSE, Len(day[location]), FALSE>>

\* A checkout.session.completed event for session s reaches thread w, which
\* runs up to and including load_sales() of record_sale.
WebLoad(w, s) ==
    /\ web[w].pc = "idle"
    /\ s \in 1..Len(sessions)
    /\ web' = [web EXCEPT ![w] = [IdleWeb EXCEPT !.pc = "loaded", !.sess = s, !.all_sales = sales]]
    /\ UNCHANGED <<clock, sales, phrases, sessions, enabled, bot, loop, moves>>

\* The rest of record_sale: test, append, save_sales, return. A KeyError
\* ends the request with a 500 answer.
WebRecord(w) ==
    /\ web[w].pc = "loaded"
    /\ LET s    == web[w].sess
           meta == sessions[s]
           r    == record_sale(web[w].all_sales, s, meta.discord_id, meta.location, meta.sale_date)
       IN  /\ sales' = IF r[2] THEN r[1] ELSE sales
           /\ web' = [web EXCEPT ![w] =
                         IF r[4]
                         THEN [IdleWeb EXCEPT !.pc = "done", !.status = 500]
                         ELSE [IdleWeb EXCEPT !.pc = "notify", !.sess = s,
                                              !.count = r[3], !.saved = r[2]]]
    /\ UNCHANGED <<clock, phrases, sessions, enabled, bot, loop, moves>>

\* What can become of the message: bot.get_user knows no such user, the
\* message is handed over, or handing it over raises.
Notices == {"no_user", "sent", "error"}

\* bot.get_user and the message to the buyer, up to the answer of the request.
\* SALES_FILE is not touched, whatever becomes of the message.
WebNotify_rollback(w) ==
    /\ web[w].pc = "notify"
    /\ \E notice \in Notices :
          /\ web' = [web EXCEPT ![w] = [IdleWeb EXCEPT !.pc = "done", !.notice = notice,
                           !.status = IF notice = "error" THEN 500 ELSE 200]]
          /\ sales' = IF notice = "sent" THEN sales
                      ELSE LET meta == sessions[web[w].sess]
                               d    == setdefault(sales, meta.sale_date, EmptyDay)
                               lst  == d[meta.sale_date][meta.location]
                           IN  [d EXCEPT ![meta.sale_date][meta.location] =
                                   SelectSeq(lst, LAMBDA e : e.session # web[w].sess)]
    /\ UNCHANGED <<clock, phrases, sessions, enabled, bot, loop, moves>>

WebNotify(w) ==
    /\ web[w].pc = "notify"
    /\ \E notice \in Notices :
          web' = [web EXCEPT ![w] = [IdleWeb EXCEPT !.pc = "done", !.notice = notice,
                        !.status = IF notice = "error" THEN 500 ELSE 200]]
    /\ UNCHANGED <<clock, sales, phrases, sessions, enabled, bot, loop, moves>>

\* the answer has gone out; the thread is free for the next request
WebDone(w) ==
    /\ web[w].pc = "done"
    /\ web' = [web EXCEPT ![w] = IdleWeb]
    /\ UNCHANGED <<clock, sales, phrases, sessions, enabled, bot, loop, moves>>

\* A checkout session of the same Stripe account that this program did not
\* create: its metadata names no venue of this program (location missing or
\* foreign), sale_date is missing or names the current night, discord_id is
\* missing and read as 0.
OtherCheckout ==
    /\ Len(sessions) < MaxSessions
    /\ \E location \in {"none", "NYC"}, sale_date \in {<<>>, iso_date(get_sale_date(now))} :
          sessions' = Append(sessions,
              [discord_id |-> 0, location |-> location, sale_date |-> sale_date])
    /\ UNCHANGED <<clock, sales, phrases, enabled, web, bot, loop, moves>>

\* ---------------------------------------------------- command handlers
Indexes == 0..(MaxSessions + 1)

\* The event loop runs one task at a time: a task takes a step when the
\* loop is free or is running that task.
CanRun(t) == loop \in {"none", t}

\* A handler that has reached its await hands the loop back.
Awaiting(t, res) == [bot[t] EXCEPT !.pc = "respond", !.result = res]

\* An interaction arrives and its task is scheduled on the loop.
Interaction(t, op) ==
    /\ bot[t].pc = "idle"
    /\ op = "checkout" => \E v \in Venues : enabled[v]
    /\ op = "move_sale" => moves < MaxMoves
    /\ moves' = IF op = "move_sale" THEN moves + 1 ELSE moves
    /\ bot' = [bot EXCEPT ![t] = [IdleTask EXCEPT !.pc = "queued", !.op = op,
                                                  !.seen = DOMAIN phrases]]
    /\ UNCHANGED <<clock, sales, phrases, sessions, enabled, web, loop>>

\* The awaited response has been sent; the task ends.
Respond(t) ==
    /\ bot[t].pc = "respond"
    /\ bot' = [bot EXCEPT ![t] = IdleTask]
    /\ UNCHANGED <<clock, sales, phrases, sessions, enabled, web, loop, moves>>

\* get_counts(): one load of SALES_FILE
get_counts(file, key) ==
    LET day == get(file, key, EmptyDay)
    IN  [ATL |-> Len(day.ATL), FL |-> Len(day.FL)]

\* SkipButtonView.refresh: disabled=(counts[v] >= 25)
disabled(counts, v) == counts[v] >= Capacity

\* setup_skip: a new SkipButtonView is built from get_counts() and posted.
SetupSkip(t) ==
    /\ bot[t].pc = "queued" /\ bot[t].op = "setup_skip" /\ CanRun(t)
    /\ LET counts == get_counts(sales, iso_date(get_sale_date(now)))
       IN  enabled' = [v \in Venues |-> enabled[v] \/ ~disabled(counts, v)]
    /\ bot' = [bot EXCEPT ![t] = Awaiting(t, "posted")]
    /\ loop' = "none"
    /\ UNCHANGED <<clock, sales, phrases, sessions, web, moves>>

\* ------------------------------------------------- ensure_phrases_for
\* `if date_iso not in pool`
always_shuffle(pool, date_iso) == TRUE

not_in_pool(pool, date_iso) == date_iso \notin DOMAIN pool

\* ensure_phrases_for is a plain function: between its load and its save
\* the task running it keeps the event loop.
yields_loop(t) == "none"

keeps_loop(t) == t

\* What follows ensure_phrases_for in its two callers, up to their await:
\* list_phrases formats the list; _start_checkout asks Stripe for a session
\* carrying discord_id, location and sale_date, which Stripe may refuse.
AfterEnsure(t, key, lst) ==
    /\ loop' = "none"
    /\ \/ /\ bot[t].op = "list_phrases"
          /\ bot' = [bot EXCEPT ![t] = [Awaiting(t, "listed") EXCEPT
                                           !.key = key, !.lst = lst, !.pool = EmptyDict]]
          /\ UNCHANGED sessions
       \/ /\ bot[t].op = "checkout"
          /\ \E location \in Venues :
                /\ enabled[location]
                /\ \/ /\ Len(sessions) < MaxSessions
                      /\ sessions' = Append(sessions,
                             [discord_id |-> UserOf(Len(sessions) + 1),
                              location |-> location, sale_date |-> key])
                      /\ bot' = [bot EXCEPT ![t] = [Awaiting(t, "link") EXCEPT
                                    !.key = key, !.lst = lst, !.pool = EmptyDict]]
                   \/ /\ UNCHANGED sessions
                      /\ bot' = [bot EXCEPT ![t] = [Awaiting(t, "failed") EXCEPT
                                    !.key = key, !.lst = lst, !.pool = EmptyDict]]

\* list_phrases and _start_checkout up to load_json(PHRASES_FILE) and the
\* test; when the night has its pool the handler runs on to its await.
EnsureLoad(t) ==
    /\ bot[t].pc = "queued" /\ bot[t].op \in {"list_phrases", "checkout"} /\ CanRun(t)
    /\ LET key  == iso_date(get_sale_date(now))
           pool == phrases
       IN  IF not_in_pool(pool, key)
           THEN /\ bot' = [bot EXCEPT ![t].pc = "shuffle", ![t].key = key, ![t].pool = pool]
                /\ loop' = keeps_loop(t)
                /\ UNCHANGED sessions
           ELSE AfterEnsure(t, key, pool[key])
    /\ UNCHANGED <<clock, sales, phrases, enabled, web, moves>>

\* copy, random.shuffle, pool[date_iso] = lst, save_json, return pool[date_iso]
EnsureSave(t) ==
    /\ bot[t].pc = "shuffle" /\ CanRun(t)
    /\ \E lst \in Shuffles(DAILY_PHRASES) :
          LET pool == (bot[t].key :> lst) @@ bot[t].pool
          IN  /\ phrases' = pool
              /\ AfterEnsure(t, bot[t].key, pool[bot[t].key])
    /\ UNCHANGED <<clock, sales, enabled, web, moves>>

\* ------------------------------------------------ remove_sale, move_sale
\* `if index < 1 or index > len(entries)`
bad_index(index, entries) == index < 1 \/ index > Len(entries)

\* remove_sale that brings an index out of range to the nearest position
remove_sale_clamp(all_sales, key, location, index) ==
    LET d0      == setdefault(all_sales, key, EmptyDay)
        entries == d0[key][location]
        p       == IF index < 1 THEN 1 ELSE IF index > Len(entries) THEN Len(entries) ELSE index
    IN  IF entries = <<>>
        THEN <<d0, FALSE, NoEntry>>
        ELSE <<[d0 EXCEPT ![key][location] = pop(@, p)], TRUE, entries[p]>>

\* remove_sale after its load: <<the dict in memory, whether the index was
\* accepted, the record popped>>
remove_sale(all_sales, key, location, index) ==
    LET d0      == setdefault(all_sales, key, EmptyDay)
        entries == d0[key][location]
    IN  IF bad_index(index, entries)
        THEN <<d0, FALSE, NoEntry>>
        ELSE <<[d0 EXCEPT ![key][location] = pop(@, index)], TRUE, entries[index]>>

\* move_sale after its load: <<the dict in memory, whether the index was
\* accepted, the record moved>>
move_sale(all_sales, key, from_loc, to_loc, index) ==
    LET d0  == setdefault(all_sales, key, EmptyDay)
        src == d0[key][from_loc]
    IN  IF bad_index(index, src)
        THEN <<d0, FALSE, NoEntry>>
        ELSE <<[d0 EXCEPT ![key][from_loc] = pop(@, index),
                          ![key][to_loc] = Append(@, src[index])], TRUE, src[index]>>

\* remove_sale up to the index test and the pop
RemoveLoad(t, location, index) ==
    /\ bot[t].pc = "queued" /\ bot[t].op = "remove_sale" /\ CanRun(t)
    /\ LET key == iso_date(get_sale_date(now))
           r   == remove_sale(sales, key, location, index)
       IN  IF r[2]
           THEN /\ bot' = [bot EXCEPT ![t] = [@ EXCEPT !.pc = "remove_save", !.key = key,
                              !.location = location, !.index = index,
                              !.all_sales = r[1], !.entry = r[3]]]
                /\ loop' = t
           ELSE /\ bot' = [bot EXCEPT ![t] = Awaiting(t, "invalid")]
                /\ loop' = "none"
    /\ UNCHANGED <<clock, sales, phrases, sessions, enabled, web, moves>>

\* save_sales(all_sales), then the await
RemoveSave(t) ==
    /\ bot[t].pc = "remove_save" /\ CanRun(t)
    /\ sales' = bot[t].all_sales
    /\ bot' = [bot EXCEPT ![t] = [Awaiting(t, "removed") EXCEPT !.all_sales = EmptyDict]]
    /\ loop' = "none"
    /\ UNCHANGED <<clock, phrases, sessions, enabled, web, moves>>

\* move_sale up to the index test, the pop and the append
MoveLoad(t, from_loc, to_loc, index) ==
    /\ bot[t].pc = "queued" /\ bot[t].op = "move_sale" /\ CanRun(t)
    /\ IF from_loc = to_loc
       THEN /\ bot' = [bot EXCEPT ![t] = Awaiting(t, "same")]
            /\ loop' = "none"
       ELSE LET key == iso_date(get_sale_date(now))
                r   == move_sale(sales, key, from_loc, to_loc, index)
            IN  IF r[2]
                THEN /\ bot' = [bot EXCEPT ![t] = [@ EXCEPT !.pc = "move_save", !.key = key,
                                   !.location = from_loc, !.to_loc = to_loc, !.index = index,
                                   !.all_sales = r[1], !.entry = r[3]]]
                     /\ loop' = t
                ELSE /\ bot' = [bot EXCEPT ![t] = Awaiting(t, "invalid")]
                     /\ loop' = "none"
    /\ UNCHANGED <<clock, sales, phrases, sessions, enabled, web, moves>>

\* save_sales(all_sales), then the await
MoveSave(t) ==
    /\ bot[t].pc = "move_save" /\ CanRun(t)
    /\ sales' = bot[t].all_sales
    /\ bot' = [bot EXCEPT ![t] = [Awaiting(t, "moved") EXCEPT !.all_sales = EmptyDict]]
    /\ loop' = "none"
    /\ UNCHANGED <<clock, phrases, sessions, enabled, web, moves>>

\* ------------------------------------------------------- specification
WebNext(w) ==
    \/ \E s \in 1..MaxSessions : WebLoad(w, s)
    \/ WebRecord(w)
    \/ WebNotify(w)
    \/ WebDone(w)

\* the buttons: setup_skip posts them, a click starts a checkout
ShopNext(t) ==
    \/ \E op \in {"setup_skip", "checkout"} : Interaction(t, op)
    \/ SetupSkip(t)
    \/ EnsureLoad(t)
    \/ EnsureSave(t)
    \/ Respond(t)

\* the owner's corrections
AdminNext(t) ==
    \/ \E op \in {"remove_sale", "move_sale"} : Interaction(t, op)
    \/ \E location \in Venues, index \in Indexes : RemoveLoad(t, location, index)
    \/ RemoveSave(t)
    \/ \E from_loc \in Venues, to_loc \in Venues, index \in Indexes :
          MoveLoad(t, from_loc, to_loc, index)
    \/ MoveSave(t)

\* The whole program: the clock, every webhook thread, every command task.
\* The specifications after it are its restrictions to the callers a property
\* is about; each keeps every step of the handlers it includes.
Next ==
    \/ Tick
    \/ OtherCheckout
    \/ \E w \in WebThreads : WebNext(w)
    \/ \E t \in BotTasks :
          \/ Interaction(t, "list_phrases")
          \/ ShopNext(t)
          \/ AdminNext(t)

Spec == Init /\ [][Next]_vars

\* One night of sales: checkouts and the payment confirmations that follow,
\* served by the threads of the webhook server.
NextPay ==
    \/ \E w \in WebThreads : WebNext(w)
    \/ ShopNext("t1")

SpecPay == Init /\ [][NextPay]_vars

\* One night with the owner at work: one webhook thread beside the command
\* handlers of the event loop.
NextAdmin ==
    \/ WebNext("w1")
    \/ ShopNext("t1")
    \/ AdminNext("t1")

SpecAdmin == Init /\ [][NextAdmin]_vars

\* The passphrase pools over the nights: the two callers of
\* ensure_phrases_for as tasks of the event loop, and the clock.
NextPool ==
    \/ Tick
    \/ \E t \in BotTasks :
          \/ Interaction(t, "list_phrases")
          \/ ShopNext(t)

SpecPool == Init /\ [][NextPool]_vars

\* The nights one after another: the clock, one webhook thread and the
\* command handlers, every command included.
NextNights ==
    \/ Tick
    \/ WebNext("w1")
    \/ Interaction("t1", "list_phrases")
    \/ ShopNext("t1")
    \/ AdminNext("t1")

SpecNights == Init /\ [][NextNights]_vars

\* The nights with the ledger operations one at a time: a handler that has
\* loaded SALES_FILE saves or gives up before another one loads it.
LedgerFree(t) == bot[t].pc \notin {"remove_save", "move_save"}

WebFree(w) == web[w].pc # "loaded"

NextSerial ==
    \/ Tick
    \/ LedgerFree("t1") /\ WebNext("w1")
    \/ WebFree("w1") /\ ShopNext("t1")
    \/ WebFree("w1") /\ AdminNext("t1")

SpecSerial == Init /\ [][NextSerial]_vars

\* One night of the same: the ledger operations one at a time, the clock at rest.
NextOwner ==
    \/ LedgerFree("t1") /\ WebNext("w1")
    \/ WebFree("w1") /\ ShopNext("t1")
    \/ WebFree("w1") /\ AdminNext("t1")

SpecOwner == Init /\ [][NextOwner]_vars

\* One night with the owner removing sales: one webhook thread beside the
\* buttons and remove_sale.
NextRemove ==
    \/ WebNext("w1")
    \/ ShopNext("t1")
    \/ Interaction("t1", "remove_sale")
    \/ \E location \in Venues, index \in Indexes : RemoveLoad("t1", location, index)
    \/ RemoveSave("t1")

SpecRemove == Init /\ [][NextRemove]_vars

\* The webhook endpoint with every checkout session of the Stripe account:
\* those of the buttons and those made elsewhere.
NextForeign ==
    \/ OtherCheckout
    \/ WebNext("w1")
    \/ ShopNext("t1")

SpecForeign == Init /\ [][NextForeign]_vars

\* --------------------------------------------------------------- claims
\* the list SALES_FILE holds for (key, v); empty when the night has no entry
ListOf(file, key, v) == get(file, key, EmptyDay)[v]

\* how many records of lst carry session s
CountOf(lst, s) == Cardinality({i \in 1..Len(lst) : lst[i].session = s})

\* the persisted list that session s is confirmed into
ListFor(s) == ListOf(sales, sessions[s].sale_date, sessions[s].location)

Returned(w) == web[w].pc = "notify"

\* C1: every confirmation of the same external_id (same night and venue)
\* returns the same position, whatever other confirmations were processed in
\* between: two calls of record_sale that have returned for one session
\* hold the same return value.
C1_SamePosition ==
    \A w1, w2 \in WebThreads :
        (Returned(w1) /\ Returned(w2) /\ web[w1].sess = web[w2].sess)
            => web[w1].count = web[w2].count

\* C2: once a confirmation of an external_id has returned, the persisted
\* ledger holds exactly one record with that external_id, under every
\* interleaving of the loads and saves of the confirmations.
C2_ExactlyOneRecord ==
    \A w \in WebThreads :
        Returned(w) => CountOf(ListFor(web[w].sess), web[w].sess) = 1

\* C3: no (night, venue) list ever holds more than Capacity records.
C3_WithinCapacity ==
    \A key \in DOMAIN sales : \A v \in Venues : Len(sales[key][v]) <= Capacity

\* C4: no update is lost: when two concurrent confirmations of distinct
\* external_ids have both returned, both records are in the persisted ledger.
C4_BothRecorded ==
    \A w1, w2 \in WebThreads :
        (Returned(w1) /\ Returned(w2) /\ web[w1].sess # web[w2].sess)
            => /\ web[w1].sess \in SessionsOf(ListFor(web[w1].sess))
               /\ web[w2].sess \in SessionsOf(ListFor(web[w2].sess))

\* the step in which move_sale saves
MoveCommits(t) == bot[t].pc = "move_save" /\ bot'[t].pc = "respond"

\* C5: the save of a move takes exactly one record off the persisted source
\* list and puts exactly one on the persisted destination list, in one step.
C5_MoveIsAtomic ==
    [][\A t \in BotTasks :
          MoveCommits(t) =>
              /\ Len(ListOf(sales', bot[t].key, bot[t].location))
                     = Len(ListOf(sales, bot[t].key, bot[t].location)) - 1
              /\ Len(ListOf(sales', bot[t].key, bot[t].to_loc))
                     = Len(ListOf(sales, bot[t].key, bot[t].to_loc)) + 1]_vars

\* C6: a move into a destination that already holds Capacity records fails:
\* move_sale never gets as far as its save with a destination list that it
\* has grown beyond Capacity.
C6_MoveRespectsCapacity ==
    \A t \in BotTasks :
        bot[t].pc = "move_save"
            => Len(bot[t].all_sales[bot[t].key][bot[t].to_loc]) <= Capacity

\* the sessions with a record in either list of night key
SessionsOn(file, key) == UNION {SessionsOf(ListOf(file, key, v)) : v \in Venues}

\* C7: removed is terminal: once remove_sale has taken the last record of an
\* external_id out of the night's ledger, no step puts a record with that
\* external_id back.
C7_RemovedIsTerminal ==
    [][\A t \in BotTasks :
          (/\ bot[t].pc = "respond" /\ bot[t].result = "removed"
           /\ bot[t].entry.session \notin SessionsOn(sales, bot[t].key))
              => bot[t].entry.session \notin SessionsOn(sales', bot[t].key)]_vars

EnsureOps == {"list_phrases", "checkout"}

\* the step in which a call of ensure_phrases_for made by task t returns
EnsureReturns(t) ==
    /\ bot[t].op \in EnsureOps
    /\ bot[t].pc \in {"queued", "shuffle"}
    /\ bot'[t].pc = "respond"

\* task t has come back from ensure_phrases_for and holds what it returned
HasPool(t) == bot[t].pc = "respond" /\ bot[t].op \in EnsureOps

FirstCallRace(t, u, key) ==
    /\ t # u
    /\ HasPool(t) /\ HasPool(u)
    /\ bot[t].key = key /\ bot[u].key = key
    /\ key \notin bot[t].seen /\ key \notin bot[u].seen

\* C9: two first calls of ensure_phrases_for for a night without a pool,
\* both pending at once, end with one persisted permutation, which both
\* callers return.
C9_FirstWriterWins ==
    \A t, u \in BotTasks :
        FirstCallRace(t, u, bot[t].key)
            => /\ bot[t].lst = bot[u].lst
               /\ bot[t].key \in DOMAIN phrases
               /\ phrases[bot[t].key] = bot[t].lst

C9_Witness == \E t, u \in BotTasks : FirstCallRace(t, u, bot[t].key)

\* the step in which a handler of task t resolves the sale night
ResolvesNight(t) == bot[t].key = <<>> /\ bot'[t].key # <<>>

\* C10: with the cutover at 1 AM, a reading of the clock before 01:00
\* (00:00 to 00:59) resolves to the previous calendar date, and a reading at
\* 01:00 or later to the date of the reading.
C10_NightResolution ==
    [][\A t \in BotTasks :
          ResolvesNight(t) =>
              IF now.hour * 60 + now.minute < 60
              THEN NextDay(bot'[t].key) = iso_date(now.date)
              ELSE bot'[t].key = iso_date(now.date)]_vars

\* it is 01:00; one handler resolved the night at 00:59 and holds the
\* previous date, another resolved it at 01:00 and holds today's
C10_Witness ==
    /\ now.hour = 1 /\ now.minute = 0 /\ clock = 1
    /\ \E t, u \in BotTasks :
          /\ bot[t].key # <<>>
          /\ NextDay(bot[t].key) = iso_date(now.date)
          /\ bot[u].key = iso_date(now.date)

\* lst without its element at position p: the elements before p where they
\* were, those after it one position up, in their order
RemovedAt(old, new, p) ==
    /\ Len(new) = Len(old) - 1
    /\ \A i \in 1..Len(new) : new[i] = IF i < p THEN old[i] ELSE old[i + 1]

\* the load-and-pop step of remove_sale and its save step
RemovePops(t) == bot[t].pc = "queued" /\ bot'[t].pc = "remove_save"

RemoveCommits(t) == bot[t].pc = "remove_save" /\ bot'[t].pc = "respond"

\* the step of record_sale that appends and saves
RecordAppends(w) == web[w].pc = "loaded" /\ web'[w].pc = "notify" /\ web'[w].saved

RecordReturns(w) == web[w].pc = "loaded" /\ web'[w].pc # "loaded"

\* the night the metadata of the session names is not the night of the clock
StaleHint(s) == sessions[s].sale_date # iso_date(get_sale_date(now))

\* C12: a confirmation whose night hint (metadata sale_date) is not the night
\* the clock gives when it is processed is rejected: the request does not end
\* as a recorded sale and no record is written under any night.
C12_StaleHintRejected ==
    [][\A w \in WebThreads :
          (RecordReturns(w) /\ StaleHint(web[w].sess)) =>
              /\ sales' = sales
              /\ web'[w].pc = "done" /\ web'[w].status # 200]_vars

\* the step in which the message to the buyer is issued, whatever becomes of it
Notifies(w) == web[w].notice = "none" /\ web'[w].notice # "none"

\* C13: the buyer is notified only after record_sale has returned, that is
\* after the ledger mutation of the request was saved, never before or during
\* it; and issuing the message, delivered or not, and answering the request
\* leave SALES_FILE as it is.
C13_NotifyAfterPersist ==
    [][\A w \in WebThreads :
          /\ Notifies(w) => (Returned(w) /\ sales' = sales)
          /\ web[w].pc \in {"idle", "loaded"} => web[w].notice = "none"
          /\ (web[w].pc = "done" /\ web'[w].pc = "idle") => sales' = sales]_vars

\* a request whose message to the buyer failed has been answered, and the
\* record it saved is in SALES_FILE
C13_Witness ==
    \E w \in WebThreads :
        /\ web[w].pc = "done" /\ web[w].notice = "error"
        /\ \E s \in 1..Len(sessions) :
              /\ sessions[s].location \in Venues
              /\ s \in SessionsOf(ListFor(s))
              /\ \A o \in 1..Len(sessions) : o = s

\* The passphrase of position p of a night: list_phrases shows the pool of
\* the night as "p/25 - phrase", one numbering for both venues.
SecretOf(pool, key, p) == pool[key][p]

\* the (venue, position) pairs of the records of a night that have a passphrase
Bound(key) ==
    {vp \in Venues \X (1..Len(phrases[key])) : vp[2] <= Len(ListOf(sales, key, vp[1]))}

\* C14: each buyer has a passphrase of their own: for a night, no two records
\* in the ledger, in one venue or in both, are bound to the same passphrase,
\* the passphrase of the record at position p of a venue being pool(night)[p-1].
C14_SecretsUnique ==
    \A key \in DOMAIN sales \cap DOMAIN phrases :
        \A a, b \in Bound(key) :
            a # b => SecretOf(phrases, key, a[2]) # SecretOf(phrases, key, b[2])

\* the request of thread w ended in an error before any message to the buyer
Failed(w) == web[w].pc = "done" /\ web[w].status = 500 /\ web[w].notice = "none"

\* C15: a confirmation whose venue is not ATL or FL, a missing venue
\* included, ends in an error for that request and leaves SALES_FILE as it
\* was: no record is added and no new night key is written.
C15_UnknownVenueRejected ==
    [][\A w \in WebThreads :
          (RecordReturns(w) /\ sessions[web[w].sess].location \notin Venues) =>
              /\ sales' = sales
              /\ web'[w].pc = "done" /\ web'[w].status = 500
              /\ web'[w].notice = "none"]_vars

\* the request for a session without a venue of this program has failed; the
\* session names a night SALES_FILE has no key for
C15_Witness ==
    \E w \in WebThreads :
        /\ Failed(w)
        /\ Len(sessions) = 1
        /\ sessions[1].location \notin Venues
        /\ sessions[1].sale_date # <<>>
        /\ sessions[1].sale_date \notin DOMAIN sales

\* index is no position of the list SALES_FILE holds for tonight's venue v
OutOfRange(v, index) ==
    index \notin 1..Len(ListOf(sales, iso_date(get_sale_date(now)), v))

\* the handler of command op starts to run in task t
Starts(t, op) == bot[t].pc = "queued" /\ bot[t].op = op /\ bot'[t].pc # "queued"

\* the command of task t is refused for its index, and nothing is written
Refused(t) ==
    /\ bot'[t].pc = "respond" /\ bot'[t].result = "invalid"
    /\ sales' = sales

LoadedFor(w) ==
    ListOf(web[w].all_sales, sessions[web[w].sess].sale_date, sessions[web[w].sess].location)

\* C17: a confirmation whose external_id is already in the (night, venue)
\* list it loaded does not mutate state: record_sale saves nothing, so
\* SALES_FILE after the call is SALES_FILE before it, in every night and venue.
C17_ReplayWritesNothing ==
    [][\A w \in WebThreads :
          ( /\ RecordReturns(w)
            /\ sessions[web[w].sess].location \in Venues
            /\ web[w].sess \in SessionsOf(LoadedFor(w)) ) =>
              /\ sales' = sales
              /\ Returned(w)' /\ ~web'[w].saved]_vars

\* record_sale has returned for a session that was in the list already
C17_Witness ==
    \E w \in WebThreads :
        /\ Returned(w) /\ ~web[w].saved /\ web[w].count = 1
        /\ ListFor(web[w].sess) = <<[session |-> web[w].sess,
                                     user |-> sessions[web[w].sess].discord_id]>>

\* the record a confirmation of session s writes
RecordOf(s) == [session |-> s, user |-> sessions[s].discord_id]

\* C18: a confirmation with an external_id the (night, venue) list it loaded
\* does not hold appends the record at the end of that list and saves it: the
\* returned position is the previous count plus 1, the new record carries the
\* given external_id and holder_id, and every record that was in the list
\* keeps its position and contents.
C18_NewIdAppended ==
    [][\A w \in WebThreads :
          ( /\ RecordReturns(w)
            /\ sessions[web[w].sess].location \in Venues
            /\ web[w].sess \notin SessionsOf(LoadedFor(w)) ) =>
              LET old == LoadedFor(w)
                  new == ListOf(sales', sessions[web[w].sess].sale_date,
                                        sessions[web[w].sess].location)
              IN  /\ Returned(w)' /\ web'[w].saved
                  /\ web'[w].count = Len(old) + 1
                  /\ new = Append(old, RecordOf(web[w].sess))]_vars

\* a new id was appended behind a record that was there: it is second, the
\* caller was told 2, and the first record is another one
C18_Witness ==
    \E w \in WebThreads :
        /\ Returned(w) /\ web[w].saved /\ web[w].count = 2
        /\ Len(ListFor(web[w].sess)) = 2
        /\ ListFor(web[w].sess)[2] = RecordOf(web[w].sess)
        /\ ListFor(web[w].sess)[1].session # web[w].sess

\* every (night, venue) list outside the set named is in SALES_FILE after
\* the step what it was before it
OnlyChanges(named) ==
    \A k \in DOMAIN sales \cup DOMAIN sales', v \in Venues :
        <<k, v>> \notin named => ListOf(sales', k, v) = ListOf(sales, k, v)

\* C19: with the ledger operations run one at a time, each changes only the
\* partitions it names: a confirmation or a removal on (night, venue) leaves
\* the other venue's list of that night and the lists of every other night as
\* they were; a move leaves the lists of every other night as they were, and
\* the record it puts at the end of the destination is the record that was at
\* the given position of the source, external_id and holder_id included.
C19_OnlyNamedPartitions ==
    [][/\ \A w \in WebThreads :
            (RecordReturns(w) /\ sessions[web[w].sess].location \in Venues) =>
                OnlyChanges({<<sessions[web[w].sess].sale_date,
                               sessions[web[w].sess].location>>})
       /\ \A t \in BotTasks :
            /\ RemoveCommits(t) => OnlyChanges({<<bot[t].key, bot[t].location>>})
            /\ MoveCommits(t) =>
                  LET src == ListOf(sales, bot[t].key, bot[t].location)
                      dst == ListOf(sales', bot[t].key, bot[t].to_loc)
                  IN  /\ OnlyChanges({<<bot[t].key, bot[t].location>>,
                                       <<bot[t].key, bot[t].to_loc>>})
                      /\ dst # <<>>
                      /\ dst[Len(dst)] = src[bot[t].index]]_vars

\* a record was moved on a night while an earlier night has records
C19_Witness ==
    \E t \in BotTasks :
        /\ bot[t].pc = "respond" /\ bot[t].result = "moved"
        /\ \E k \in DOMAIN sales, v \in Venues : k # bot[t].key /\ sales[k][v] # <<>>
        /\ LET dst == ListOf(sales, bot[t].key, bot[t].to_loc)
           IN  dst # <<>> /\ dst[Len(dst)] = bot[t].entry

====
